---- MODULE Spec2Model ----
(***************************************************************************)
(* State-machine model of the content synchronisation engine of            *)
(* vsco-profile-backup-cli: the backup orchestrator (core/index.ts), the   *)
(* manifest store (manifest/io.ts), the incremental diff                   *)
(* (core/incremental.ts), the sequential downloader                        *)
(* (download/downloader.ts) with the shared retry policy (utils/retry.ts)  *)
(* and the session-backed transport (download/playwright-transport.ts).    *)
(*                                                                         *)
(* Files are modelled by their observable content class.  A write through  *)
(* fs.writeFile is not atomic: the file is opened (truncated), filled, and *)
(* only then complete; a process crash or a write error may stop it at any *)
(* of these points.  rename() is atomic.  Writes of media files may fail;   *)
(* the manifest's own temporary file is assumed writable (a save is only   *)
(* ever cut short by a crash).                                             *)
(***************************************************************************)
EXTENDS Integers, Sequences, FiniteSets, TLC

(***************************************************************************)
(* Bounds of the model.                                                    *)
(***************************************************************************)
\* Number of orchestrateBackup invocations explored against one archive root.
MaxRuns == 2
\* Longest task list handed to downloadAssets by a direct caller.
MaxTasks == 2
\* Number of media files tampered with between two runs.
MaxTamper == 1
\* Largest maxAttempts option passed to retry besides the default.
MaxAttemptsOption == 3
\* Largest maxScrollCycles and maxItems options besides the defaults, and the
\* most ids one scroll cycle adds to the set.
MaxScrollCyclesOption == 2
MaxItemsOption == 2
MaxNewPerCycle == 2
\* Number of times the owner of a session calls its close().
MaxCloseCalls == 3
\* Number of generateSlug calls of one pass over a registry.
MaxSlugCalls == 3
\* Longest candidate list handed to selectHighestResolution, and the largest
\* width or height of a candidate.
MaxCandidates == 2
MaxDimension == 2
\* Number of photos and blog assets handed to buildDownloadQueue in all.
MaxQueueEntries == 3

(***************************************************************************)
(* Program constants.                                                      *)
(***************************************************************************)
\* retry(): maxAttempts default.
DefaultMaxAttempts == 5
\* generateMediaFilename(): the id is cut to 240 - ext.length - 1 characters.
FilenameBudget == 240
DefaultMaxScrollCycles == 50
DefaultNoNewContentThreshold == 3
MaxBodyBytes == 8192

(***************************************************************************)
(* Small helpers.                                                          *)
(***************************************************************************)
Min(a, b) == IF a < b THEN a ELSE b

(***************************************************************************)
(* Media identifiers and file names (utils/paths.ts).                      *)
(* An id is a string, modelled as a sequence of characters.                *)
(***************************************************************************)
\* Characters kept by the sanitiser /[^a-z0-9-]/gi.
SafeChars == {"a", "b", "c", "0", "1", "-"}

IsSafeChar(c) == c \in SafeChars

\* mediaId.replace(/[^a-z0-9-]/gi, '')
SanitizeId(mediaId) == SelectSeq(mediaId, IsSafeChar)

\* extensionMap[contentType] || 'bin'
ExtensionOf(contentType) ==
  CASE contentType = "image/jpeg" -> <<"j", "p", "g">>
    [] contentType = "image/jpg" -> <<"j", "p", "g">>
    [] contentType = "image/png" -> <<"p", "n", "g">>
    [] contentType = "image/gif" -> <<"g", "i", "f">>
    [] contentType = "image/webp" -> <<"w", "e", "b", "p">>
    [] contentType = "video/mp4" -> <<"m", "p", "4">>
    [] contentType = "video/quicktime" -> <<"m", "o", "v">>
    [] contentType = "video/webm" -> <<"w", "e", "b", "m">>
    [] OTHER -> <<"b", "i", "n">>

\* generateMediaFilename(mediaId, contentType): `${truncatedId}.${ext}`
generateMediaFilename(mediaId, contentType) ==
  LET ext == ExtensionOf(contentType)
      safeId == SanitizeId(mediaId)
      maxIdLength == FilenameBudget - Len(ext) - 1
      truncatedId == SubSeq(safeId, 1, Min(Len(safeId), maxIdLength))
  IN truncatedId \o <<".">> \o ext

\* The media ids the remote profile may expose.  "a_" differs from "a" only
\* by a character the sanitiser removes.
IdA == <<"a">>
IdAu == <<"a", "_">>
IdB == <<"b">>
PhotoIds == {IdA, IdAu, IdB}

\* The remote feed, oldest photo first; a discovery pass finds a prefix of it.
PhotoOrder == <<IdA, IdB, IdAu>>

\* downloadFile / resolveMediaPath: getMediaPath(backupRoot, filename).  One
\* archive root is modelled, so a path is its file name.
MediaPathOf(mediaId) == generateMediaFilename(mediaId, "image/jpeg")

MediaPaths == {MediaPathOf(id) : id \in PhotoIds}

(***************************************************************************)
(* URL normaliser (utils/url.ts).  A URL input is described by what the    *)
(* normaliser looks at: whether anything is left after trim(), whether it  *)
(* starts with "//", whether new URL() can parse it, and its scheme.       *)
(***************************************************************************)
UrlKinds == {"https", "http", "protorel", "protorelbad", "empty", "blank",
             "data", "blob", "ftp", "unparseable"}

\* normalizeRemoteUrl(input)
normalizeRemoteUrl(input) ==
  CASE input.kind \in {"empty", "blank"} ->
         [ok |-> FALSE, reason |-> "Invalid URL: empty input", url |-> "none"]
    [] input.kind = "protorel" ->
         [ok |-> TRUE, reason |-> "", url |-> "https"]
    [] input.kind = "protorelbad" ->
         [ok |-> FALSE, reason |-> "Invalid URL: malformed protocol-relative URL",
          url |-> "none"]
    [] input.kind = "data" ->
         [ok |-> FALSE, reason |-> "Unsupported protocol: data:", url |-> "none"]
    [] input.kind = "blob" ->
         [ok |-> FALSE, reason |-> "Unsupported protocol: blob:", url |-> "none"]
    [] input.kind = "ftp" ->
         [ok |-> FALSE, reason |-> "Unsupported protocol: ftp:", url |-> "none"]
    [] input.kind = "http" ->
         [ok |-> TRUE, reason |-> "", url |-> "https"]
    [] input.kind = "https" ->
         [ok |-> TRUE, reason |-> "", url |-> "https"]
    [] OTHER ->
         [ok |-> FALSE, reason |-> "Invalid URL: failed to parse", url |-> "none"]

Url(kind) == [kind |-> kind]

(***************************************************************************)
(* HTTP exchange of the direct transport, block detection                  *)
(* (utils/cloudflare-block.ts) and failure classification (utils/retry.ts).*)
(***************************************************************************)
\* What one fetch(url) / route.fetch() can come back with.  marker: a known
\* challenge marker occurs in the part of the body the detector scans.
Resp(status, html, marker, empty) ==
  [status |-> status, html |-> html, marker |-> marker, empty |-> empty]

RespOk == Resp(200, FALSE, FALSE, FALSE)
RespChallenge == Resp(200, TRUE, TRUE, FALSE)
RespEmpty == Resp(200, FALSE, FALSE, TRUE)
RespForbidden == Resp(403, TRUE, FALSE, FALSE)
RespNotFound == Resp(404, FALSE, FALSE, FALSE)
RespServerError == Resp(500, FALSE, FALSE, FALSE)

Responses ==
  {RespOk, RespChallenge, RespEmpty, RespForbidden, RespNotFound, RespServerError}

\* isCloudflareBlocked(response)
isCloudflareBlocked(response) ==
  IF response.status = 403 THEN TRUE
  ELSE IF ~response.html THEN FALSE
  ELSE response.marker

\* response.ok
RespIsOk(response) == response.status >= 200 /\ response.status < 300

\* An error value as isTransientError inspects it: whether its message holds
\* timeout / econnrefused / econnreset, its status field (0: none), and
\* whether it is a SyntaxError.
Err(message, msgTransient, status, syntax) ==
  [message |-> message, msgTransient |-> msgTransient, status |-> status,
   syntax |-> syntax]

\* new Error(`HTTP ${status}: ...`) with error.status = response.status
HttpError(response) == Err("HTTP error", FALSE, response.status, FALSE)

\* fetch() rejecting: TypeError("fetch failed"), no status field.
NetworkError == Err("fetch failed", FALSE, 0, FALSE)

\* isTransientError(error)
isTransientError(error) ==
  IF error.msgTransient THEN TRUE
  ELSE IF error.status # 0 /\ ((error.status >= 500 /\ error.status < 600) \/ error.status = 429)
       THEN TRUE
  ELSE IF error.status # 0 /\ error.status >= 400 /\ error.status < 500 THEN FALSE
  ELSE IF error.syntax THEN FALSE
  ELSE TRUE

\* What fetch(url) may do for a URL input.  An http(s) URL reaches the
\* network: any response, or a rejected promise.  A data: URL is answered by
\* the runtime itself.  Every other input makes fetch() reject.
FetchOutcomes(url) ==
  CASE url.kind \in {"https", "http"} ->
         {[thrown |-> FALSE, resp |-> r] : r \in Responses}
           \cup {[thrown |-> TRUE, resp |-> RespOk]}
    [] url.kind = "data" ->
         {[thrown |-> FALSE, resp |-> RespOk], [thrown |-> TRUE, resp |-> RespOk]}
    [] OTHER -> {[thrown |-> TRUE, resp |-> RespOk]}

(***************************************************************************)
(* Files.                                                                  *)
(***************************************************************************)
\* Content classes of a media file: "absent" (no file), "empty" (a zero-byte
\* file), "partial" (a non-empty file holding only part of a body), "full" (a
\* non-empty file holding a whole body).

\* Faulty variant: the zero-size test is left out.
FileVerdictWithoutSizeTest(state) ==
  IF state = "absent" THEN "missing" ELSE "ok"

\* stats.size === 0 / ENOENT tests of needsDownload and classifyManifestPhoto
\* (no expected size is ever supplied by the orchestrator).
FileVerdict(state) ==
  CASE state = "absent" -> "missing"
    [] state = "empty" -> "invalid"
    [] OTHER -> "ok"

AbsentFile == [kind |-> "absent"]
PartialFile == [kind |-> "partial"]
CompleteFile(m) == [kind |-> "complete", m |-> m]

(***************************************************************************)
(* State.                                                                  *)
(***************************************************************************)
VARIABLES
  pc,            \* position of the single thread of control
  entry,         \* which exported function the caller invoked
  manifestFile,  \* <root>/.vsco-backup/manifest.json
  manifestTmp,   \* <root>/.vsco-backup/manifest.json.tmp
  media,         \* media path -> content class of the file
  mediaTmp,      \* media path -> content class of `${path}.tmp`
  manifest,      \* orchestrateBackup: the in-memory manifest
  runId,         \* orchestrateBackup: id returned by recordBackupRunStart
  clock,         \* source of Date.now(): runs started so far
  discovery,     \* orchestrateBackup: result of discoverProfile
  incremental,   \* orchestrateBackup: result of detectIncrementalPhotos
  tasks,         \* downloadAssets: the task list
  results,       \* downloadAssets: the results pushed so far
  attempt,       \* retry: loop variable of the current item
  dlog,          \* observation: transport activity for the item last started
  saveFrame,     \* saveManifestAtomic: where to continue, file before the save
  hist,          \* observation: facts about the previous and the current run
  call,          \* retry called directly: options, loop variables, what it raised
  probe,         \* discoverProfile called directly: opts, scrollState, browser
  session,       \* createVscoSession: its locals, and the close calls observed
  registry,      \* generateSlug: the existingSlugMap of a pass, the calls observed
  applied        \* a pure function called directly: its name, arguments, result

vars == <<pc, entry, manifestFile, manifestTmp, media, mediaTmp, manifest, runId,
          clock, discovery, incremental, tasks, results, attempt, dlog, saveFrame,
          hist, call, probe, session, registry, applied>>

fsVars == <<manifestFile, manifestTmp, media, mediaTmp>>
runVars == <<manifest, runId, clock, discovery, incremental, saveFrame, hist>>
\* Frames of the functions that the specifications of single functions call.
unitVars == <<call, probe, session, registry, applied>>

(***************************************************************************)
(* Values of the in-memory variables while no call is using them.          *)
(***************************************************************************)
NoManifest == [ts |-> 0, photos |-> <<>>, galleries |-> <<>>, blog_posts |-> <<>>,
               backup_runs |-> <<>>]
NoDiscovery == [errorMessage |-> "", photos |-> <<>>]
NoIncremental == [newItems |-> <<>>, missingItems |-> <<>>, invalidItems |-> <<>>]
NoSaveFrame == [ret |-> "none", prior |-> AbsentFile]
EmptyLog == [fetches |-> 0, blocked |-> FALSE, session |-> FALSE, error |-> "none",
             delays |-> 0]
NoMedia == [p \in MediaPaths |-> "absent"]
NoFailure == Err("none", FALSE, 0, FALSE)
NoRaise == [kind |-> "none", isTransient |-> FALSE, attempts |-> 0,
            lastError |-> NoFailure]
NoCall == [maxAttempts |-> 0, attempt |-> 0, lastError |-> NoFailure,
           raised |-> NoRaise, invocations |-> 0, sleeps |-> 0,
           failed |-> NoFailure, allTransient |-> TRUE]
NoProbe == [maxScrollCycles |-> 0, noNewContentThreshold |-> 0, limited |-> FALSE,
            maxItems |-> 0, ownsBrowser |-> FALSE, browser |-> "null",
            currentCycle |-> 0, totalIds |-> 0, cyclesWithoutNewContent |-> 0,
            lastIdCount |-> 0, errorMessage |-> "", navigated |-> "none",
            emptyRun |-> 0, extracted |-> FALSE, capture |-> "none"]
NoSession == [headless |-> TRUE, browser |-> "null", context |-> "null", page |-> "null",
              closed |-> FALSE, closing |-> "idle", error |-> "none",
              raised |-> "none", closeCalls |-> 0, closeLog |-> <<>>, threw |-> {}]
NoRegistry == [existingSlugMap |-> <<>>, calls |-> <<>>]
NoApplied == [fn |-> "none", args |-> <<>>, result |-> <<>>]
NoHist == [prevOk |-> FALSE, prevDisc |-> {}, lastOk |-> FALSE, lastFailed |-> FALSE,
           lastDisc |-> {}, tamper |-> {}, before |-> AbsentFile,
           mediaBefore |-> NoMedia, failedIds |-> {}]


(***************************************************************************)
(* downloadAssets / downloadFile (download/downloader.ts).                  *)
(***************************************************************************)
Task(url, mediaId) == [url |-> url, mediaId |-> mediaId]

\* Index and task of the loop iteration in progress.
CurIndex == Len(results) + 1
CurTask == tasks[CurIndex]
CurPath == MediaPathOf(CurTask.mediaId)

\* results.push(result), then the loop test i < tasks.length.
PushResult(result) ==
  /\ results' = Append(results, result)
  /\ pc' = IF Len(results) + 1 = Len(tasks) THEN "dl_done" ELSE "dl_item"

\* Faulty variant: the item's failure is rethrown out of the batch.
FailItemRethrow ==
  /\ pc' = "dl_thrown"
  /\ attempt' = 0
  /\ UNCHANGED results

\* downloadFile's catch block: the item's failure becomes its result.
FailItem ==
  /\ PushResult([task |-> CurTask, success |-> FALSE, downloaded |-> FALSE])
  /\ attempt' = 0

\* Faulty variant: the first item is rate-limited like the others.
RateLimitDelaysEveryItem(index, delays) == delays + 1

\* i === 0 ? downloadFile(task) : rateLimit(() => downloadFile(task)): the
\* rate-limit sleeps of the batch once the item at `index` has been started.
RateLimitDelays(index, delays) == IF index = 1 THEN 0 ELSE delays + 1

\* Loop head of downloadAssets (rateLimit sleep before every item but the
\* first), then downloadFile up to the needsDownload decision.
DlItem ==
  /\ pc = "dl_item"
  /\ Len(results) < Len(tasks)
  /\ dlog' = [EmptyLog EXCEPT !.delays = RateLimitDelays(CurIndex, dlog.delays)]
  /\ IF FileVerdict(media[CurPath]) = "ok"
     THEN PushResult([task |-> CurTask, success |-> TRUE, downloaded |-> FALSE])
     ELSE /\ pc' = "dl_fetch"
          /\ UNCHANGED results
  /\ attempt' = 0
  /\ UNCHANGED <<unitVars, entry, tasks, fsVars, runVars>>

\* retry(): the catch branch for an attempt that threw `error`; what it
\* rethrows reaches downloadFile's catch block.
RetryCatch(error) ==
  IF ~isTransientError(error)
  THEN FailItem
  ELSE IF attempt = DefaultMaxAttempts - 1
  THEN FailItem
  ELSE /\ attempt' = attempt + 1
       /\ pc' = "dl_fetch"
       /\ UNCHANGED results

\* One attempt of the operation retry() wraps: fetch(url), the response.ok
\* test, reading the body; then, outside retry, the empty-body test, mkdir
\* and the start of writeFile(localPath, ...), which opens the final path
\* and truncates it.
DlFetch ==
  /\ pc = "dl_fetch"
  /\ \E out \in FetchOutcomes(CurTask.url) :
       /\ dlog' = [dlog EXCEPT
                     !.fetches = @ + 1,
                     !.blocked = @ \/ (~out.thrown /\ isCloudflareBlocked(out.resp)),
                     !.error = IF out.thrown THEN NetworkError.message
                               ELSE IF ~RespIsOk(out.resp) THEN HttpError(out.resp).message
                               ELSE IF out.resp.empty THEN "Downloaded file is empty"
                               ELSE "none"]
       /\ IF out.thrown THEN RetryCatch(NetworkError) /\ UNCHANGED media
          ELSE IF ~RespIsOk(out.resp) THEN RetryCatch(HttpError(out.resp)) /\ UNCHANGED media
          ELSE IF out.resp.empty
               THEN FailItem /\ UNCHANGED media
          ELSE /\ media' = [media EXCEPT ![CurPath] = "empty"]
               /\ pc' = "dl_write"
               /\ attempt' = 0
               /\ UNCHANGED results
  /\ UNCHANGED <<unitVars, entry, tasks, manifestFile, manifestTmp, mediaTmp, runVars>>

\* writeFile(localPath, fileBuffer) in progress: bytes reach the final path.
DlWriteChunk ==
  /\ pc = "dl_write"
  /\ media[CurPath] = "empty"
  /\ media' = [media EXCEPT ![CurPath] = "partial"]
  /\ UNCHANGED <<pc, unitVars, entry, tasks, results, attempt, dlog, manifestFile, manifestTmp,
                 mediaTmp, runVars>>

\* writeFile(localPath, fileBuffer) resolves: the whole body is on disk.
DlWriteDone ==
  /\ pc = "dl_write"
  /\ media[CurPath] = "partial"
  /\ media' = [media EXCEPT ![CurPath] = "full"]
  /\ PushResult([task |-> CurTask, success |-> TRUE, downloaded |-> TRUE])
  /\ attempt' = 0
  /\ UNCHANGED <<unitVars, entry, tasks, dlog, manifestFile, manifestTmp, mediaTmp, runVars>>

\* writeFile(localPath, fileBuffer) rejects (disk full, I/O error): what was
\* written stays under the final path and downloadFile's catch block runs.
DlWriteError ==
  /\ pc = "dl_write"
  /\ FailItem
  /\ dlog' = [dlog EXCEPT !.error = "write failed"]
  /\ UNCHANGED <<unitVars, entry, tasks, fsVars, runVars>>

(***************************************************************************)
(* downloadWithPlaywright (download/playwright-transport.ts), the          *)
(* session-backed transport, invoked by a caller for one URL and path.     *)
(***************************************************************************)
\* return { success, error, ... } of downloadWithPlaywright.
PwReturn(success, cause) ==
  /\ results' = <<[task |-> CurTask, success |-> success, downloaded |-> success]>>
  /\ dlog' = [dlog EXCEPT !.session = TRUE, !.error = cause]
  /\ pc' = "pw_done"

\* page.route + page.goto + page.unroute: the route handler fetches through
\* the browser, screens the response, captures the body; then the
\* routeError / responseData tests, mkdir, and the start of
\* writeFile(tmpPath, ...).  routed = FALSE: navigation failed before the
\* handler ran.
PwRoute ==
  /\ pc = "pw_start"
  /\ \E routed \in BOOLEAN : \E out \in FetchOutcomes(CurTask.url) :
       IF ~routed THEN PwReturn(FALSE, "No response data captured") /\ UNCHANGED mediaTmp
       ELSE IF out.thrown THEN PwReturn(FALSE, "fetch failed") /\ UNCHANGED mediaTmp
       ELSE IF isCloudflareBlocked(out.resp)
            THEN PwReturn(FALSE, "Cloudflare block detected") /\ UNCHANGED mediaTmp
       ELSE IF ~RespIsOk(out.resp) THEN PwReturn(FALSE, "HTTP error") /\ UNCHANGED mediaTmp
       ELSE IF out.resp.empty
            THEN PwReturn(FALSE, "No response data captured") /\ UNCHANGED mediaTmp
       ELSE /\ mediaTmp' = [mediaTmp EXCEPT ![CurPath] = "empty"]
            /\ dlog' = [dlog EXCEPT !.session = TRUE]
            /\ pc' = "pw_write"
            /\ UNCHANGED results
  /\ UNCHANGED <<unitVars, entry, tasks, attempt, manifestFile, manifestTmp, media, runVars>>

\* writeFile(tmpPath, finalData) in progress.
PwWriteChunk ==
  /\ pc = "pw_write"
  /\ mediaTmp[CurPath] = "empty"
  /\ mediaTmp' = [mediaTmp EXCEPT ![CurPath] = "partial"]
  /\ UNCHANGED <<pc, unitVars, entry, tasks, results, attempt, dlog, manifestFile, manifestTmp,
                 media, runVars>>

\* writeFile(tmpPath, finalData) resolves.
PwWriteDone ==
  /\ pc = "pw_write"
  /\ mediaTmp[CurPath] = "partial"
  /\ mediaTmp' = [mediaTmp EXCEPT ![CurPath] = "full"]
  /\ pc' = "pw_rename"
  /\ UNCHANGED <<unitVars, entry, tasks, results, attempt, dlog, manifestFile, manifestTmp,
                 media, runVars>>

\* rename(tmpPath, filepath), then return { success: true }.
PwRename ==
  /\ pc = "pw_rename"
  /\ media' = [media EXCEPT ![CurPath] = mediaTmp[CurPath]]
  /\ mediaTmp' = [mediaTmp EXCEPT ![CurPath] = "absent"]
  /\ PwReturn(TRUE, "none")
  /\ UNCHANGED <<unitVars, entry, tasks, attempt, manifestFile, manifestTmp, runVars>>

\* writeFile or rename rejects: the outer catch unlinks tmpPath and returns
\* the failure.
PwWriteError ==
  /\ pc \in {"pw_write", "pw_rename"}
  /\ mediaTmp' = [mediaTmp EXCEPT ![CurPath] = "absent"]
  /\ PwReturn(FALSE, "write failed")
  /\ UNCHANGED <<unitVars, entry, tasks, attempt, manifestFile, manifestTmp, media, runVars>>

(***************************************************************************)
(* Manifest store (manifest/io.ts).                                        *)
(***************************************************************************)
\* initializeManifest(username, profileUrl)
initializeManifest(now) ==
  [ts |-> now, photos |-> <<>>, galleries |-> <<>>, blog_posts |-> <<>>,
   backup_runs |-> <<>>]

\* recordBackupRunStart(manifest): the run is pushed with status 'success'
\* and zero counts, and profile.last_backup_ts is set to now.
recordBackupRunStart(m, id, now) ==
  [m EXCEPT !.backup_runs =
              Append(@, [run_id |-> id, ts |-> now, new_content_count |-> 0,
                         missing_content_count |-> 0, invalid_content_count |-> 0,
                         downloaded_items |-> <<>>, status |-> "success",
                         error_message |-> ""]),
            !.ts = now]

\* manifest.backup_runs.find(r => r.run_id === runId): the first match.
FindRun(m, id) ==
  LET hits == {i \in 1..Len(m.backup_runs) : m.backup_runs[i].run_id = id}
  IN IF hits = {} THEN 0 ELSE CHOOSE i \in hits : \A j \in hits : i <= j

\* recordBackupRunFinish(manifest, runId, counts, status = 'success', errorMessage)
recordBackupRunFinish(m, id, counts, status, errorMessage) ==
  LET k == FindRun(m, id)
  IN [m EXCEPT !.backup_runs[k] =
        [@ EXCEPT !.new_content_count = counts.new_content_count,
                  !.missing_content_count = counts.missing_content_count,
                  !.invalid_content_count = counts.invalid_content_count,
                  !.downloaded_items = counts.downloaded_items,
                  !.status = status,
                  !.error_message = IF errorMessage # "" THEN errorMessage ELSE @]]

\* Faulty variant: the manifest path itself is opened for writing.
SaveInPlace(ret) ==
  /\ manifestFile' = PartialFile
  /\ manifestTmp' = PartialFile
  /\ saveFrame' = [ret |-> ret, prior |-> manifestFile]
  /\ pc' = "save_write"

\* saveManifestAtomic, first half: ensureBackupRoot, JSON.stringify and the
\* start of writeFile(tempPath, ...).  ret: where the caller continues.
SaveBegin(ret) ==
  /\ manifestTmp' = PartialFile
  /\ saveFrame' = [ret |-> ret, prior |-> manifestFile]
  /\ pc' = "save_write"
  /\ UNCHANGED manifestFile

(***************************************************************************)
(* Incremental diff (core/incremental.ts).                                 *)
(***************************************************************************)
\* classifyManifestPhoto(backupRoot, photo, {}): stat of the local path.
classifyManifestPhoto(photo, files) == FileVerdict(files[MediaPathOf(photo.id)])

\* detectIncrementalPhotos(backupRoot, discoveredPhotos, manifest)
detectIncrementalPhotos(discoveredPhotos, m, files) ==
  LET manifestIds == {m.photos[i].id : i \in 1..Len(m.photos)}
      IsNew(photo) == photo.id \notin manifestIds
      IsMissing(photo) == classifyManifestPhoto(photo, files) = "missing"
      IsInvalid(photo) == classifyManifestPhoto(photo, files) = "invalid"
  IN [newItems |-> SelectSeq(discoveredPhotos, IsNew),
      missingItems |-> SelectSeq(m.photos, IsMissing),
      invalidItems |-> SelectSeq(m.photos, IsInvalid)]

(***************************************************************************)
(* Results of discoverProfile, as orchestrateBackup consumes them.         *)
(***************************************************************************)
\* extractPhotos keeps one photo per id and only photos whose URL the
\* normaliser accepted.
DiscoveredPhoto(id) == [id |-> id, imageUrl |-> Url("https")]

\* extractGalleries / extractBlogPosts keep one entry per matching element:
\* the same id may occur twice.
Collections ==
  {[galleries |-> <<>>, blogPosts |-> <<>>],
   [galleries |-> <<[id |-> "g1", name |-> "Trips"]>>,
    blogPosts |-> <<[id |-> "p1", title |-> ""]>>],
   [galleries |-> <<[id |-> "g1", name |-> "Trips"], [id |-> "g1", name |-> ""]>>,
    blogPosts |-> <<[id |-> "p1", title |-> ""]>>]}

DiscoveryErrors ==
  {"Profile not found", "Profile is private or suspended", "Navigation failed"}

\* The galleries and blog posts of a result are drawn where orchestrateBackup
\* first reads them (Collections, in PostDownload).
DiscoveryResults ==
  {[errorMessage |-> "",
    photos |-> [i \in 1..n |-> DiscoveredPhoto(PhotoOrder[i])]] : n \in 0..Len(PhotoOrder)}
  \cup {[errorMessage |-> e, photos |-> <<>>] : e \in DiscoveryErrors}

(***************************************************************************)
(* orchestrateBackup (core/index.ts).                                      *)
(***************************************************************************)
\* mapPhoto / mapGallery / mapBlogPost
mapPhoto(photo, now) ==
  [id |-> photo.id, url_highres |-> photo.imageUrl, downloaded_at |-> now]
mapGallery(gallery) ==
  [id |-> gallery.id,
   name |-> IF gallery.name # "" THEN gallery.name ELSE "Untitled Gallery",
   photo_ids |-> <<>>]
mapBlogPost(post, now) ==
  [id |-> post.id, slug |-> post.id,
   title |-> IF post.title # "" THEN post.title ELSE "Untitled Post",
   content_html |-> "", published_at |-> now]

MapSeq(s, Op(_)) == [i \in 1..Len(s) |-> Op(s[i])]

Rest == {"idle", "returned", "thrown", "crashed", "load_failed"}

\* The call's locals are gone once it has returned, thrown or died.
ForgetLocals ==
  /\ manifest' = NoManifest
  /\ runId' = 0
  /\ discovery' = NoDiscovery
  /\ incremental' = NoIncremental
  /\ tasks' = <<>>
  /\ results' = <<>>
  /\ attempt' = 0
  /\ dlog' = EmptyLog
  /\ saveFrame' = NoSaveFrame

\* loadManifest: the parsed file, or a fresh manifest when the file is
\* missing.  A file that is not valid JSON makes JSON.parse throw a
\* SyntaxError, which loadManifest rethrows.
CanLoad == manifestFile.kind # "partial"
loadManifest(now) ==
  IF manifestFile.kind = "complete" THEN manifestFile.m ELSE initializeManifest(now)

\* generateRunId(): `${Date.now()}-${random}`.
generateRunId(now) == now

\* orchestrateBackup, lines 42-50: loadManifest, recordBackupRunStart.
LoadAndStart ==
  /\ pc \in Rest
  /\ entry = "orchestrateBackup"
  /\ clock < MaxRuns
  /\ clock' = clock + 1
  /\ IF CanLoad
     THEN /\ manifest' = recordBackupRunStart(loadManifest(clock + 1),
                                              generateRunId(clock + 1), clock + 1)
          /\ runId' = generateRunId(clock + 1)
          /\ pc' = "discover"
     ELSE /\ pc' = "load_failed"
          /\ UNCHANGED <<manifest, runId>>
  /\ hist' = [hist EXCEPT !.prevOk = hist.lastOk, !.prevDisc = hist.lastDisc,
                           !.lastOk = FALSE, !.lastFailed = FALSE, !.lastDisc = {},
                           !.before = manifestFile, !.mediaBefore = media]
  /\ UNCHANGED <<unitVars, entry, fsVars, discovery, incremental, tasks, results, attempt, dlog,
                 saveFrame>>

\* orchestrateBackup, lines 53-70: discoverProfile, the errorMessage test,
\* mapPhoto, detectIncrementalPhotos, the task list; downloadAssets begins.
Discover ==
  /\ pc = "discover"
  /\ \E d \in DiscoveryResults :
       /\ discovery' = d
       /\ IF d.errorMessage # ""
          THEN /\ pc' = "catch"
               /\ UNCHANGED <<incremental, tasks, dlog, hist>>
          ELSE LET MapP(ph) == mapPhoto(ph, clock)
                   manifestPhotos == MapSeq(d.photos, MapP)
                   inc == detectIncrementalPhotos(manifestPhotos, manifest, media)
                   itemsToDownload == inc.newItems \o inc.missingItems \o inc.invalidItems
                   ToTask(photo) == Task(photo.url_highres, photo.id)
               IN /\ incremental' = inc
                  /\ tasks' = MapSeq(itemsToDownload, ToTask)
                  /\ dlog' = EmptyLog
                  /\ pc' = IF itemsToDownload = <<>> THEN "dl_done" ELSE "dl_item"
                  /\ hist' = [hist EXCEPT !.lastDisc = {d.photos[i].id : i \in 1..Len(d.photos)}]
  /\ results' = <<>>
  /\ attempt' = 0
  /\ UNCHANGED <<unitVars, entry, fsVars, manifest, runId, clock, saveFrame>>

\* results.filter(r => r.success && r.downloaded).map(r => r.task.mediaId)
DownloadedIds(rs) ==
  LET Got(r) == r.success /\ r.downloaded
      IdOf(r) == r.task.mediaId
  IN MapSeq(SelectSeq(rs, Got), IdOf)

\* Faulty variant: the new photos are not pushed to manifest.content.photos.
ManifestWithoutNewPhotos(galleries, blogPosts) ==
  LET MapB(post) == mapBlogPost(post, clock)
      withContent == [manifest EXCEPT
                        !.galleries = MapSeq(galleries, mapGallery),
                        !.blog_posts = MapSeq(blogPosts, MapB)]
  IN recordBackupRunFinish(withContent, runId,
       [new_content_count |-> Len(incremental.newItems),
        missing_content_count |-> Len(incremental.missingItems),
        invalid_content_count |-> Len(incremental.invalidItems),
        downloaded_items |-> DownloadedIds(results)],
       "success", "")

\* The manifest orchestrateBackup has built when it calls saveManifestAtomic
\* in the try block (lines 72-84): new photos pushed, galleries and blog
\* posts assigned from the discovery, the run finished with the default
\* status.
ManifestAfterDownloads(galleries, blogPosts) ==
  LET MapB(post) == mapBlogPost(post, clock)
      withContent == [manifest EXCEPT
                        !.photos = @ \o incremental.newItems,
                        !.galleries = MapSeq(galleries, mapGallery),
                        !.blog_posts = MapSeq(blogPosts, MapB)]
  IN recordBackupRunFinish(withContent, runId,
       [new_content_count |-> Len(incremental.newItems),
        missing_content_count |-> Len(incremental.missingItems),
        invalid_content_count |-> Len(incremental.invalidItems),
        downloaded_items |-> DownloadedIds(results)],
       "success", "")

\* orchestrateBackup, lines 72-86, after downloadAssets has returned.
PostDownload ==
  /\ pc = "dl_done"
  /\ entry = "orchestrateBackup"
  /\ \E found \in Collections :
       manifest' = ManifestAfterDownloads(found.galleries, found.blogPosts)
  /\ SaveBegin("site")
  /\ hist' = [hist EXCEPT
               !.lastOk = \A i \in 1..Len(results) : results[i].success,
               !.lastFailed = \E i \in 1..Len(results) : ~results[i].success,
               !.mediaBefore = NoMedia,
               !.failedIds = {results[i].task.mediaId :
                                i \in {k \in 1..Len(results) : ~results[k].success}}]
  \* discovery, incremental, the task list and the results are not read again
  /\ discovery' = NoDiscovery
  /\ incremental' = NoIncremental
  /\ tasks' = <<>>
  /\ results' = <<>>
  /\ dlog' = EmptyLog
  /\ UNCHANGED <<unitVars, entry, media, mediaTmp, runId, clock, attempt>>

\* saveManifestAtomic: writeFile(tempPath, jsonContent) resolves.
SaveWriteDone ==
  /\ pc = "save_write"
  /\ manifestTmp' = CompleteFile(manifest)
  /\ pc' = "save_rename"
  /\ UNCHANGED <<unitVars, entry, manifestFile, media, mediaTmp, manifest, runId, clock,
                 discovery, incremental, tasks, results, attempt, dlog, saveFrame, hist>>

\* saveManifestAtomic: rename(tempPath, manifestPath).  In the try block the
\* caller goes on to generateSite; in the catch block it rethrows.
SaveRename ==
  /\ pc = "save_rename"
  /\ manifestFile' = manifestTmp
  /\ manifestTmp' = AbsentFile
  /\ pc' = saveFrame.ret
  /\ IF saveFrame.ret = "site"
     THEN UNCHANGED <<manifest, runId, discovery, incremental, tasks, results,
                      attempt, dlog, saveFrame, hist>>
     ELSE /\ hist' = [hist EXCEPT !.tamper = {}, !.mediaBefore = NoMedia]
          /\ ForgetLocals
  /\ UNCHANGED <<unitVars, entry, media, mediaTmp, clock>>

\* generateSite(backupRoot): resolves, or rejects (it rethrows whatever the
\* generator throws).
GenerateSite ==
  /\ pc = "site"
  /\ \E ok \in BOOLEAN :
       IF ok
       THEN /\ pc' = "returned"
            /\ hist' = [hist EXCEPT !.tamper = {}]
            /\ ForgetLocals
       ELSE /\ pc' = "catch"
            /\ UNCHANGED <<manifest, runId, discovery, incremental, tasks, results,
                           attempt, dlog, saveFrame, hist>>
  /\ UNCHANGED <<unitVars, entry, fsVars, clock>>

\* The message of the error the catch block received.
CaughtMessage ==
  IF discovery.errorMessage # "" THEN discovery.errorMessage ELSE "Failed to generate site"

\* Faulty variant: the catch block rethrows without recording or saving.
CatchWithoutSave ==
  /\ pc = "catch"
  /\ pc' = "thrown"
  /\ hist' = [hist EXCEPT !.tamper = {}, !.mediaBefore = NoMedia]
  /\ ForgetLocals
  /\ UNCHANGED <<unitVars, entry, fsVars, clock>>

\* orchestrateBackup, lines 91-100: recordBackupRunFinish(..., 'failed',
\* message) and the start of saveManifestAtomic.
Catch ==
  /\ pc = "catch"
  /\ manifest' = recordBackupRunFinish(manifest, runId,
                    [new_content_count |-> 0, missing_content_count |-> 0,
                     invalid_content_count |-> 0, downloaded_items |-> <<>>],
                    "failed", CaughtMessage)
  /\ SaveBegin("thrown")
  /\ UNCHANGED <<unitVars, entry, media, mediaTmp, runId, clock, discovery, incremental, tasks,
                 results, attempt, dlog, hist>>

(***************************************************************************)
(* Environment.                                                            *)
(***************************************************************************)
Running == {"discover", "dl_item", "dl_fetch", "dl_write", "dl_done", "save_write",
            "save_rename", "site", "catch", "pw_start", "pw_write", "pw_rename"}

\* The process is killed: files stay as they are, everything in memory is
\* lost.
Crash ==
  /\ pc \in Running
  /\ ~(entry = "downloadAssets" /\ pc = "dl_done")
  /\ pc' = "crashed"
  /\ hist' = IF entry = "orchestrateBackup"
             THEN [hist EXCEPT !.lastOk = FALSE, !.lastFailed = FALSE, !.lastDisc = {},
                               !.tamper = {}, !.mediaBefore = NoMedia]
             ELSE hist
  /\ ForgetLocals
  /\ UNCHANGED <<unitVars, entry, fsVars, clock>>

\* After a run that returned or threw, and before the next one, somebody
\* truncates a media file to zero bytes.
Truncate ==
  /\ pc \in {"returned", "thrown"}
  /\ entry = "orchestrateBackup"
  /\ clock < MaxRuns
  /\ Cardinality(hist.tamper) < MaxTamper
  /\ \E p \in MediaPaths :
       /\ media[p] = "full"
       /\ media' = [media EXCEPT ![p] = "empty"]
       /\ hist' = [hist EXCEPT !.tamper = @ \cup {[path |-> p, op |-> "truncate"]}]
  /\ UNCHANGED <<pc, unitVars, entry, manifestFile, manifestTmp, mediaTmp, manifest, runId, clock,
                 discovery, incremental, tasks, results, attempt, dlog, saveFrame>>

(***************************************************************************)
(* Specification of backup runs against one archive root: an empty root,   *)
(* then runs of orchestrateBackup, each possibly killed, with the media    *)
(* directory possibly tampered with between runs.                          *)
(***************************************************************************)
Init ==
  /\ pc = "idle"
  /\ entry = "orchestrateBackup"
  /\ manifestFile = AbsentFile
  /\ manifestTmp = AbsentFile
  /\ media = NoMedia
  /\ mediaTmp = NoMedia
  /\ manifest = NoManifest
  /\ runId = 0
  /\ clock = 0
  /\ discovery = NoDiscovery
  /\ incremental = NoIncremental
  /\ tasks = <<>>
  /\ results = <<>>
  /\ attempt = 0
  /\ dlog = EmptyLog
  /\ saveFrame = NoSaveFrame
  /\ hist = NoHist
  /\ call = NoCall
  /\ probe = NoProbe
  /\ session = NoSession
  /\ registry = NoRegistry
  /\ applied = NoApplied

Next ==
  \/ LoadAndStart
  \/ Discover
  \/ DlItem
  \/ DlFetch
  \/ DlWriteChunk
  \/ DlWriteDone
  \/ DlWriteError
  \/ PostDownload
  \/ SaveWriteDone
  \/ SaveRename
  \/ GenerateSite
  \/ Catch
  \/ Crash
  \/ Truncate

Spec == Init /\ [][Next]_vars

(***************************************************************************)
(* Specification of the download layer called directly: a caller hands     *)
(* downloadAssets a task list, or downloadWithPlaywright one URL and path, *)
(* with any URL input and any state of the media directory.                *)
(***************************************************************************)
DirectIds == {IdA, IdB}
DirectTasks == {Task(Url(k), id) : k \in UrlKinds, id \in DirectIds}

TaskLists == UNION {[1..n -> DirectTasks] : n \in 0..MaxTasks}

InitDownload ==
  /\ entry \in {"downloadAssets", "downloadWithPlaywright"}
  /\ tasks \in TaskLists
  /\ entry = "downloadWithPlaywright" => Len(tasks) = 1
  /\ pc = IF entry = "downloadWithPlaywright" THEN "pw_start"
          ELSE IF tasks = <<>> THEN "dl_done" ELSE "dl_item"
  /\ manifestFile = AbsentFile
  /\ manifestTmp = AbsentFile
  /\ media \in [MediaPaths -> {"absent", "empty", "full"}]
  /\ mediaTmp = NoMedia
  /\ manifest = NoManifest
  /\ runId = 0
  /\ clock = 0
  /\ discovery = NoDiscovery
  /\ incremental = NoIncremental
  /\ results = <<>>
  /\ attempt = 0
  /\ dlog = EmptyLog
  /\ saveFrame = NoSaveFrame
  /\ hist = [NoHist EXCEPT !.mediaBefore = media]
  /\ call = NoCall
  /\ probe = NoProbe
  /\ session = NoSession
  /\ registry = NoRegistry
  /\ applied = NoApplied

NextDownload ==
  \/ DlItem
  \/ DlFetch
  \/ DlWriteChunk
  \/ DlWriteDone
  \/ DlWriteError
  \/ PwRoute
  \/ PwWriteChunk
  \/ PwWriteDone
  \/ PwRename
  \/ PwWriteError
  \/ Crash

SpecDownload == InitDownload /\ [][NextDownload]_vars

(***************************************************************************)
(* Properties of backup runs (specification Spec).                         *)
(***************************************************************************)
\* The content ids a manifest file holds, tagged by collection.
ContentIds(file) ==
  IF file.kind # "complete" THEN {}
  ELSE {<<"photo", file.m.photos[i].id>> : i \in 1..Len(file.m.photos)}
       \cup {<<"gallery", file.m.galleries[i].id>> : i \in 1..Len(file.m.galleries)}
       \cup {<<"post", file.m.blog_posts[i].id>> : i \in 1..Len(file.m.blog_posts)}

\* The run history a manifest file holds.
RunsOf(file) == IF file.kind = "complete" THEN file.m.backup_runs ELSE <<>>

\* C1: once a run is over (returned, thrown or killed), every photo, gallery
\* and blog-post id that the persisted manifest held before the run is still
\* in the persisted manifest.
C1_ContentNeverRemoved ==
  pc \in Rest => ContentIds(hist.before) \subseteq ContentIds(manifestFile)

DownloadPhase == {"dl_item", "dl_fetch", "dl_write", "dl_done"}

\* The previous run saved its manifest with every queued download succeeded,
\* no media file was touched since, and this run discovered the same photos.
UnchangedRerun ==
  /\ entry = "orchestrateBackup"
  /\ pc \in DownloadPhase
  /\ hist.prevOk
  /\ hist.tamper = {}
  /\ hist.lastDisc = hist.prevDisc

\* C2: a run that follows a run whose queued downloads all succeeded, finds
\* the same photos and finds the media files intact classifies nothing as
\* new, missing or invalid, queues nothing and calls no transport.
C2_UnchangedRerunIsNoOp ==
  UnchangedRerun =>
    /\ incremental = NoIncremental
    /\ tasks = <<>>
    /\ pc = "dl_done"
    /\ dlog = EmptyLog

\* The rerun of C2 happens with two photos downloaded by the run before.
C2_Witness ==
  /\ UnchangedRerun
  /\ Cardinality(hist.prevDisc) >= 2
  /\ \A p \in MediaPaths : media[p] = "full"

\* The previous run saved its manifest with every queued download succeeded,
\* then exactly the media file p, the file of a photo the manifest records,
\* was truncated to zero bytes, and this run, which discovered the same
\* photos, has finished its downloads.
TruncateAndRerun(p) ==
  /\ entry = "orchestrateBackup"
  /\ pc = "dl_done"
  /\ hist.prevOk
  /\ hist.tamper = {[path |-> p, op |-> "truncate"]}
  /\ hist.lastDisc = hist.prevDisc
  /\ \E i \in 1..Len(manifest.photos) : MediaPathOf(manifest.photos[i].id) = p

AllItems(inc) == inc.newItems \o inc.missingItems \o inc.invalidItems

C4_ManifestPathAlwaysComplete ==
  /\ [](manifestFile.kind \in {"absent", "complete"})
  /\ [][manifestFile' # manifestFile =>
          /\ pc = "save_rename"
          /\ manifestFile = saveFrame.prior
          /\ manifestFile' = CompleteFile(manifest)]_vars

\* The process died between the temporary-file write and the rename while an
\* earlier manifest was in place.
C4_Witness ==
  /\ pc = "crashed"
  /\ manifestTmp.kind \in {"partial", "complete"}
  /\ manifestFile.kind = "complete"
  /\ manifestTmp # manifestFile

TerminalStatuses == {"success", "partial", "failed"}

C7_FailedDownloadMeansPartial ==
  (/\ pc = "returned"
   /\ hist.lastFailed
   /\ ContentIds(manifestFile) # {})
    => RunsOf(manifestFile)[Len(RunsOf(manifestFile))].status = "partial"

(***************************************************************************)
(* Properties of the download layer (specification SpecDownload).          *)
(***************************************************************************)
\* C5: no transport ever leaves anything but a whole body under a final
\* media path it has written to: a path whose content differs from what it
\* was before the call holds a whole body.
C5_FinalPathNeverPartial ==
  \A p \in MediaPaths : media[p] # hist.mediaBefore[p] => media[p] = "full"

\* C8: downloadAssets never throws, its results are the results of the first
\* tasks in task order, and when it returns there is one result per task.
C8_OneResultPerTaskInOrder ==
  entry = "downloadAssets" =>
    /\ pc # "dl_thrown"
    /\ Len(results) <= Len(tasks)
    /\ \A i \in 1..Len(results) : results[i].task = tasks[i]
    /\ pc = "dl_done" => Len(results) = Len(tasks)

\* A batch of two returned: the first item failed, the second was downloaded.
C8_Witness ==
  /\ entry = "downloadAssets"
  /\ pc = "dl_done"
  /\ Len(tasks) = 2
  /\ ~results[1].success
  /\ results[2].downloaded

\* downloadAssets has just finished an item; dlog describes that item.
ItemFinished ==
  /\ entry = "downloadAssets"
  /\ pc \in {"dl_item", "dl_done"}
  /\ Len(results) > 0

\* C9: an item whose primary response was classified as blocked was fetched
\* once on the primary transport and then handed to the session-backed
\* transport; an item that failed with an ordinary HTTP error was not handed
\* to the session-backed transport.
C9_BlockedFallsBackToSession ==
  ItemFinished =>
    /\ dlog.blocked => (dlog.session /\ dlog.fetches = 1)
    /\ (~dlog.blocked /\ dlog.error = "HTTP error") => ~dlog.session

\* C10: an item whose URL the normaliser rejects and whose file was not
\* already in place has failed, with the normaliser's reason as its error,
\* without any call of fetch.
C10_RejectedUrlFailsWithoutFetch ==
  ItemFinished =>
    LET r == results[Len(results)]
        n == normalizeRemoteUrl(r.task.url)
        skipped == r.success /\ ~r.downloaded
    IN (~n.ok /\ ~skipped) =>
                /\ ~r.success
                /\ ~r.downloaded
                /\ dlog.error = n.reason
                /\ dlog.fetches = 0

(***************************************************************************)
(* retry (utils/retry.ts) called directly: any positive maxAttempts, the   *)
(* operation failing in any way, or returning, at every invocation.        *)
(***************************************************************************)
\* Every main variable other than pc and entry, as before any call.
RestIdle ==
  /\ manifestFile = AbsentFile
  /\ manifestTmp = AbsentFile
  /\ media = NoMedia
  /\ mediaTmp = NoMedia
  /\ manifest = NoManifest
  /\ runId = 0
  /\ clock = 0
  /\ discovery = NoDiscovery
  /\ incremental = NoIncremental
  /\ tasks = <<>>
  /\ results = <<>>
  /\ attempt = 0
  /\ dlog = EmptyLog
  /\ saveFrame = NoSaveFrame
  /\ hist = NoHist

mainVars == <<manifestFile, manifestTmp, media, mediaTmp, manifest, runId, clock,
              discovery, incremental, tasks, results, attempt, dlog, saveFrame, hist>>

\* options?.maxAttempts ?? 5, for the values callers pass and smaller ones.
RetryOptions == {DefaultMaxAttempts} \cup 1..MaxAttemptsOption

\* What the operation may throw: with or without one of the words the
\* message test looks for, with or without a status field, a SyntaxError or
\* not.
FailureStatuses == {0, 404, 408, 429, 500}
RetryFailure(msgTransient, status, syntax) ==
  Err(IF msgTransient THEN "Request Timeout" ELSE "failed", msgTransient, status, syntax)
RetryFailures ==
  {RetryFailure(mt, st, sx) : mt \in BOOLEAN, st \in FailureStatuses, sx \in BOOLEAN}

\* Faulty variant: the last attempt is recognised one iteration late.
IsLastAttemptOffByOne(a, maxAttempts) == a = maxAttempts

\* attempt === maxAttempts - 1
IsLastAttempt(a, maxAttempts) == a = maxAttempts - 1

\* The RetryError thrown from the catch block.
RetryError(isTransient, attempts, lastError) ==
  [kind |-> "RetryError", isTransient |-> isTransient, attempts |-> attempts,
   lastError |-> lastError]

\* throw new Error('Retry loop exited unexpectedly')
UnexpectedExit == [NoRaise EXCEPT !.kind = "Error"]

\* One iteration of the for loop up to the sleep: await fn(), and the catch
\* block when fn threw.
RetryInvoke ==
  /\ pc = "rt_call"
  /\ \E returned \in BOOLEAN, error \in RetryFailures :
       LET invoked == [call EXCEPT !.invocations = @ + 1] IN
       IF returned
       THEN /\ call' = invoked
            /\ pc' = "rt_returned"
       ELSE LET caught == [invoked EXCEPT !.lastError = error, !.failed = error,
                             !.allTransient = @ /\ isTransientError(error)] IN
            IF ~isTransientError(error)
            THEN /\ call' = [caught EXCEPT
                               !.raised = RetryError(FALSE, call.attempt + 1, error)]
                 /\ pc' = "rt_thrown"
            ELSE IF IsLastAttempt(call.attempt, call.maxAttempts)
            THEN /\ call' = [caught EXCEPT
                               !.raised = RetryError(TRUE, call.maxAttempts, error)]
                 /\ pc' = "rt_thrown"
            ELSE /\ call' = caught
                 /\ pc' = "rt_sleep"
  /\ UNCHANGED <<entry, mainVars, probe, session, registry, applied>>

\* await sleep(delayMs), attempt++, and the loop test attempt < maxAttempts.
RetrySleep ==
  /\ pc = "rt_sleep"
  /\ LET next == [call EXCEPT !.sleeps = @ + 1, !.attempt = @ + 1] IN
     IF next.attempt < next.maxAttempts
     THEN /\ call' = next
          /\ pc' = "rt_call"
     ELSE /\ call' = [next EXCEPT !.raised = UnexpectedExit]
          /\ pc' = "rt_thrown"
  /\ UNCHANGED <<entry, mainVars, probe, session, registry, applied>>

InitRetry ==
  /\ pc = "rt_call"
  /\ entry = "retry"
  /\ RestIdle
  /\ \E m \in RetryOptions : call = [NoCall EXCEPT !.maxAttempts = m]
  /\ probe = NoProbe
  /\ session = NoSession
  /\ registry = NoRegistry
  /\ applied = NoApplied

NextRetry ==
  \/ RetryInvoke
  \/ RetrySleep

SpecRetry == InitRetry /\ [][NextRetry]_vars

(***************************************************************************)
(* Properties of retry (specification SpecRetry).                          *)
(***************************************************************************)
\* A failure the retry policy describes as deterministic: a 4xx status
\* other than 429, or a SyntaxError.
DeterministicFailure(error) ==
  \/ error.status >= 400 /\ error.status < 500 /\ error.status # 429
  \/ error.syntax

\* C11: when an attempt fails with a 4xx status other than 429, or with a
\* parse/syntax error, retry raises right after that attempt: it neither
\* sleeps nor invokes the operation again.
C11_DeterministicFailureRaisesAtOnce ==
  [][(pc = "rt_call" /\ pc' # "rt_returned" /\ DeterministicFailure(call'.failed))
       => (pc' = "rt_thrown" /\ call'.sleeps = call.sleeps)]_vars

\* C12: the operation is never invoked more than maxAttempts times; when
\* every attempt failed with a transient failure, retry raises after exactly
\* maxAttempts invocations, with a RetryError whose attempt count is
\* maxAttempts and whose last error is the failure of the final attempt.
C12_AtMostMaxAttempts ==
  /\ call.invocations <= call.maxAttempts
  /\ (pc = "rt_thrown" /\ call.allTransient) =>
       /\ call.invocations = call.maxAttempts
       /\ call.raised = RetryError(TRUE, call.maxAttempts, call.failed)

C12_Witness ==
  /\ pc = "rt_thrown"
  /\ call.allTransient
  /\ call.maxAttempts = DefaultMaxAttempts
  /\ call.invocations = DefaultMaxAttempts
  /\ call.sleeps = DefaultMaxAttempts - 1

(***************************************************************************)
(* discoverProfile (discovery module) called directly, with its own        *)
(* browser or with a page of the caller, any options, and any outcome of   *)
(* every page operation.                                                   *)
(***************************************************************************)
ScrollCaps == {DefaultMaxScrollCycles} \cup 0..MaxScrollCyclesOption
Thresholds == {1, DefaultNoNewContentThreshold}

\* Faulty variant: the cycle cap is tested after the cycle it should stop.
ScrollLoopContinuesPastCap(f) ==
  /\ f.currentCycle <= f.maxScrollCycles
  /\ f.cyclesWithoutNewContent < f.noNewContentThreshold
  /\ (~f.limited \/ f.totalIds < f.maxItems)

\* The while condition of the scroll discovery loop.
ScrollLoopContinues(f) ==
  /\ f.currentCycle < f.maxScrollCycles
  /\ f.cyclesWithoutNewContent < f.noNewContentThreshold
  /\ (~f.limited \/ f.totalIds < f.maxItems)

\* chromium.launch, browser.newContext, context.newPage; any of them may
\* throw.  With a page of the caller nothing is launched.
DiscLaunch ==
  /\ pc = "dp_start"
  /\ IF ~probe.ownsBrowser
     THEN /\ pc' = "dp_navigate"
          /\ probe' = probe
     ELSE \E failing \in {"none", "launch", "newContext", "newPage"} :
            /\ probe' = [probe EXCEPT
                 !.browser = IF failing = "launch" THEN "null" ELSE "open",
                 !.errorMessage = IF failing = "none" THEN "" ELSE failing]
            /\ pc' = IF failing = "none" THEN "dp_navigate" ELSE "dp_catch"
  /\ UNCHANGED <<entry, mainVars, call, session, registry, applied>>

\* Faulty variant: a private profile is scrolled like a public one.
AfterNavigateScrollsPrivate(outcome) ==
  CASE outcome = "404" -> "dp_returned"
    [] outcome \in {"thrown", "4xx5xx"} -> "dp_catch"
    [] OTHER -> "dp_scroll"

\* Where discoverProfile goes on after navigation: the two early returns,
\* the throws, or the scroll loop.
AfterNavigate(outcome) ==
  CASE outcome \in {"404", "private"} -> "dp_returned"
    [] outcome \in {"thrown", "4xx5xx"} -> "dp_catch"
    [] OTHER -> "dp_scroll"

\* Faulty variant: the counter is not reset by a cycle that found ids.
CountEmptyCyclesNoReset(f, sizeAfter) ==
  IF sizeAfter = f.lastIdCount THEN f.cyclesWithoutNewContent + 1
  ELSE f.cyclesWithoutNewContent

\* if (scrollState.lastIdCount === previousIdCount) cyclesWithoutNewContent++
\* else cyclesWithoutNewContent = 0
CountEmptyCycles(f, sizeAfter) ==
  IF sizeAfter = f.lastIdCount THEN f.cyclesWithoutNewContent + 1 ELSE 0

\* setupNetworkInterception, goto under retry, the status tests,
\* waitForPageReady and checkIfPrivateOrSuspended.
DiscNavigate ==
  /\ pc = "dp_navigate"
  /\ \E outcome \in {"thrown", "404", "4xx5xx", "private", "public"} :
       /\ probe' = [probe EXCEPT !.navigated = outcome, !.errorMessage =
            CASE outcome = "404" -> "Profile not found"
              [] outcome = "private" -> "Profile is private or suspended"
              [] outcome = "4xx5xx" -> "HTTP error"
              [] outcome = "thrown" -> "thrown"
              [] OTHER -> ""]
       /\ pc' = AfterNavigate(outcome)
  /\ UNCHANGED <<entry, mainVars, call, session, registry, applied>>

\* The loop test and one cycle: scroll, wait, extractContentIds adding
\* `fresh` ids that the set did not hold; any of the page calls may throw.
DiscScrollCycle ==
  /\ pc = "dp_scroll"
  /\ IF ~ScrollLoopContinues(probe)
     THEN /\ pc' = "dp_extract"
          /\ probe' = probe
     ELSE \E thrown \in BOOLEAN, fresh \in 0..MaxNewPerCycle :
            LET started == [probe EXCEPT !.currentCycle = @ + 1] IN
            IF thrown
            THEN /\ probe' = [started EXCEPT !.errorMessage = "thrown"]
                 /\ pc' = "dp_catch"
            ELSE /\ probe' = [started EXCEPT
                      !.totalIds = @ + fresh,
                      !.lastIdCount = probe.totalIds + fresh,
                      !.cyclesWithoutNewContent =
                         CountEmptyCycles(probe, probe.totalIds + fresh),
                      !.emptyRun = IF fresh = 0 THEN @ + 1 ELSE 0]
                 /\ pc' = "dp_scroll"
  /\ UNCHANGED <<entry, mainVars, call, session, registry, applied>>

\* extractPhotos, extractGalleries, extractBlogPosts, then closing the own
\* browser and returning the result.
DiscExtract ==
  /\ pc = "dp_extract"
  /\ \E thrown \in BOOLEAN, closeThrows \in BOOLEAN :
       LET passed == [probe EXCEPT !.extracted = TRUE] IN
       IF thrown
       THEN /\ probe' = [passed EXCEPT !.errorMessage = "thrown"]
            /\ pc' = "dp_catch"
       ELSE IF probe.ownsBrowser /\ probe.browser # "null"
       THEN IF closeThrows
            THEN /\ probe' = [passed EXCEPT !.errorMessage = "thrown"]
                 /\ pc' = "dp_catch"
            ELSE /\ probe' = [passed EXCEPT !.browser = "closed"]
                 /\ pc' = "dp_returned"
       ELSE /\ probe' = passed
            /\ pc' = "dp_returned"
  /\ UNCHANGED <<entry, mainVars, call, session, registry, applied>>

\* The catch block: artifact capture (skipped without backupRoot and
\* runId; its failures are caught and logged), closing the own browser,
\* returning the error result; a close that throws rejects the call.
DiscCatch ==
  /\ pc = "dp_catch"
  /\ \E capture \in {"skipped", "captured", "failed"} :
       LET caught == [probe EXCEPT !.capture = capture] IN
       IF probe.ownsBrowser /\ probe.browser # "null"
       THEN \E closeThrows \in BOOLEAN :
              IF closeThrows
              THEN /\ probe' = caught
                   /\ pc' = "dp_rejected"
              ELSE /\ probe' = [caught EXCEPT !.browser = "closed"]
                   /\ pc' = "dp_returned"
       ELSE /\ probe' = caught
            /\ pc' = "dp_returned"
  /\ UNCHANGED <<entry, mainVars, call, session, registry, applied>>

InitDiscover ==
  /\ pc = "dp_start"
  /\ entry = "discoverProfile"
  /\ RestIdle
  /\ call = NoCall
  /\ session = NoSession
  /\ registry = NoRegistry
  /\ applied = NoApplied
  /\ \E cap \in ScrollCaps, threshold \in Thresholds, limited \in BOOLEAN,
        maxItems \in 1..MaxItemsOption, owns \in BOOLEAN :
       /\ ~limited => maxItems = 1
       /\ probe = [NoProbe EXCEPT !.maxScrollCycles = cap,
                     !.noNewContentThreshold = threshold, !.limited = limited,
                     !.maxItems = maxItems, !.ownsBrowser = owns]

NextDiscover ==
  \/ DiscLaunch
  \/ DiscNavigate
  \/ DiscScrollCycle
  \/ DiscExtract
  \/ DiscCatch

SpecDiscover == InitDiscover /\ [][NextDiscover]_vars

\* Every page operation is awaited and settles (Playwright timeouts), so a
\* call that can take a step takes it.
SpecDiscoverFair == SpecDiscover /\ WF_vars(NextDiscover)

(***************************************************************************)
(* Properties of discoverProfile (SpecDiscover, SpecDiscoverFair).         *)
(***************************************************************************)
\* C13: whatever each cycle discovers, the scroll loop runs at most
\* maxScrollCycles cycles, and discoverProfile comes to an end.
C13_ScrollLoopCappedAndTerminates ==
  /\ [](probe.currentCycle <= probe.maxScrollCycles)
  /\ <>(pc \in {"dp_returned", "dp_rejected"})

\* With a threshold of one, every one of the 50 default cycles added an id
\* (a cycle without one would have ended the loop), and the cap stopped it.
C13_Witness ==
  /\ pc = "dp_extract"
  /\ probe.noNewContentThreshold = 1
  /\ ~probe.limited
  /\ probe.maxScrollCycles = DefaultMaxScrollCycles
  /\ probe.currentCycle = DefaultMaxScrollCycles
  /\ probe.totalIds >= DefaultMaxScrollCycles
  /\ probe.cyclesWithoutNewContent = 0

\* C14: when discoverProfile returns after launching its own browser, that
\* browser has been closed.
C14_OwnBrowserClosedOnReturn ==
  (pc = "dp_returned" /\ probe.ownsBrowser /\ probe.browser # "null")
    => probe.browser = "closed"

(***************************************************************************)
(* createVscoSession and the close() of the session it returns.            *)
(***************************************************************************)
\* The order in which close() goes through the sub-resources.
CloseOrder == <<"page", "context", "browser">>

\* Faulty variant: the closed flag is not consulted.
AlreadyClosedIgnored(s) == FALSE

\* if (closed) return;
AlreadyClosed(s) == s.closed

\* Faulty variant: a close that throws ends close() with that error.
AfterCloseUnguarded(position, throws) ==
  IF throws THEN "failed"
  ELSE CASE position = "page" -> "context"
         [] position = "context" -> "browser"
         [] OTHER -> "done"

\* try { await x.close(); } catch { }: whatever the close did, close() goes
\* on with the next sub-resource.
AfterClose(position, throws) ==
  CASE position = "page" -> "context"
    [] position = "context" -> "browser"
    [] OTHER -> "done"

\* Entry of close(): the test of the flag, and setting it.
EnterClose(s) ==
  IF AlreadyClosed(s) THEN [s EXCEPT !.closeCalls = @ + 1]
  ELSE [s EXCEPT !.closeCalls = @ + 1, !.closed = TRUE, !.closing = "page"]

\* launch, newContext, newPage; the first that throws leads to the catch
\* block, otherwise the session is returned.
SessAcquire ==
  /\ pc = "vs_start"
  /\ \E failing \in {"none", "launch", "newContext", "newPage"} :
       /\ session' = [session EXCEPT
            !.browser = IF failing = "launch" THEN "null" ELSE "set",
            !.context = IF failing \in {"launch", "newContext"} THEN "null" ELSE "set",
            !.page = IF failing = "none" THEN "set" ELSE "null",
            !.error = failing]
       /\ pc' = IF failing = "none" THEN "vs_returned" ELSE "vs_catch"
  /\ UNCHANGED <<entry, mainVars, call, probe, registry, applied>>

\* catch (error) { await close(); ... }: the call of close().
SessCatchClose ==
  /\ pc = "vs_catch"
  /\ session.closeCalls = 0
  /\ session' = EnterClose(session)
  /\ UNCHANGED <<pc, entry, mainVars, call, probe, registry, applied>>

\* The owner of a returned session calls session.close(), possibly while an
\* earlier call is still awaiting a close.
SessCloseCall ==
  /\ pc = "vs_returned"
  /\ session.closeCalls < MaxCloseCalls
  /\ session' = EnterClose(session)
  /\ UNCHANGED <<pc, entry, mainVars, call, probe, registry, applied>>

\* One of the three guarded blocks of close().
SessCloseStep ==
  /\ session.closing \in {"page", "context", "browser"}
  /\ LET name == session.closing IN
     IF session[name] = "null"
     THEN session' = [session EXCEPT !.closing = AfterClose(name, FALSE)]
     ELSE \E throws \in BOOLEAN :
            session' = [session EXCEPT
              !.closeLog = Append(@, name),
              !.threw = IF throws THEN @ \cup {name} ELSE @,
              !.closing = AfterClose(name, throws)]
  /\ UNCHANGED <<pc, entry, mainVars, call, probe, registry, applied>>

\* ... throw error; } once the awaited close() has settled.
SessRethrow ==
  /\ pc = "vs_catch"
  /\ session.closing \in {"done", "failed"}
  /\ session' = [session EXCEPT
       !.raised = IF session.closing = "failed" THEN "cleanup" ELSE session.error]
  /\ pc' = "vs_thrown"
  /\ UNCHANGED <<entry, mainVars, call, probe, registry, applied>>

InitSession ==
  /\ pc = "vs_start"
  /\ entry = "createVscoSession"
  /\ RestIdle
  /\ call = NoCall
  /\ probe = NoProbe
  /\ \E headless \in BOOLEAN : session = [NoSession EXCEPT !.headless = headless]
  /\ registry = NoRegistry
  /\ applied = NoApplied

NextSession ==
  \/ SessAcquire
  \/ SessCatchClose
  \/ SessCloseCall
  \/ SessCloseStep
  \/ SessRethrow

SpecSession == InitSession /\ [][NextSession]_vars

\* A close() that has started is awaiting closes that settle; nothing makes
\* the owner call close().
SpecSessionFair == SpecSession /\ WF_vars(SessCloseStep)

(***************************************************************************)
(* Properties of sessions (SpecSession, SpecSessionFair).                  *)
(***************************************************************************)
\* The sub-resources createVscoSession holds, in the order of CloseOrder.
Acquired == SelectSeq(CloseOrder, LAMBDA name : session[name] = "set")

\* C15: when createVscoSession fails while acquiring, each sub-resource
\* acquired before the failure has had close called exactly once, and the
\* error raised is the acquisition error, not an error of a close.
C15_SetupFailureClosesAcquired ==
  pc = "vs_thrown" =>
    /\ session.closeLog = Acquired
    /\ session.raised = session.error
    /\ session.raised \in {"launch", "newContext", "newPage"}

\* newPage failed, and closing the context threw as well.
C15_Witness ==
  /\ pc = "vs_thrown"
  /\ session.error = "newPage"
  /\ session.closeLog = <<"context", "browser">>
  /\ "context" \in session.threw

IsPrefixOf(s, t) == Len(s) <= Len(t) /\ \A i \in 1..Len(s) : s[i] = t[i]

\* C16: for a returned session, the closes attempted so far are always an
\* initial part of page, context, browser, each at most once, however many
\* times close() was called and whichever close threw; once close() has been
\* called all three get attempted.
C16_EachClosedOnceInOrder ==
  /\ [](pc = "vs_returned" => IsPrefixOf(session.closeLog, CloseOrder))
  /\ ((pc = "vs_returned" /\ session.closeCalls > 0) ~> (session.closeLog = CloseOrder))

\* close() was called more than once, the page's close threw, and all three
\* were attempted.
C16_Witness ==
  /\ pc = "vs_returned"
  /\ session.closeCalls = MaxCloseCalls
  /\ session.closeLog = CloseOrder
  /\ "page" \in session.threw

(***************************************************************************)
(* Further properties of backup runs (specification Spec).                 *)
(***************************************************************************)
DistinctIds(items) ==
  \A i, j \in 1..Len(items) : items[i].id = items[j].id => i = j

\* C17: the persisted manifest never holds two photos with the same id, two
\* galleries with the same id, or two blog posts with the same id.
C17_NoDuplicateIds ==
  manifestFile.kind = "complete" =>
    /\ DistinctIds(manifestFile.m.photos)
    /\ DistinctIds(manifestFile.m.galleries)
    /\ DistinctIds(manifestFile.m.blog_posts)

\* C18: a run that ended with status failed leaves the profile's
\* last-successful-run timestamp at the value the persisted manifest held
\* before the run.
C18_FailedRunKeepsTimestamp ==
  (pc = "thrown" /\ hist.before.kind = "complete" /\ manifestFile.kind = "complete")
    => manifestFile.m.ts = hist.before.m.ts

(***************************************************************************)
(* generateSlug (utils/paths.ts) called repeatedly with one registry.  A   *)
(* slug is the sequence of its hyphen-separated parts; a name is the       *)
(* sequence of its words.                                                  *)
(***************************************************************************)
SlugIds == {"id-1", "id-2", "id-3"}

\* generateHashSuffix(id): the first six hex digits of the id's SHA-256.
generateHashSuffix(id) ==
  CASE id = "id-1" -> "eb66c6"
    [] id = "id-2" -> "d5d5b1"
    [] OTHER -> "c0dd04"

\* What normalizeSlug makes of one word: lower case, unsafe characters
\* removed (a word of unsafe characters only disappears).
NormalizeWord(word) ==
  CASE word = "Summer" -> "summer"
    [] word = "Item" -> "item"
    [] word = "!!" -> ""
    [] OTHER -> word

\* normalizeSlug(text)
normalizeSlug(text) ==
  SelectSeq([i \in 1..Len(text) |-> NormalizeWord(text[i])], LAMBDA part : part # "")

\* Names: two that normalize to the same slug, two that normalize to the
\* empty string, and two that read like slugs generateSlug builds itself.
SlugNames ==
  {<<"Summer">>, <<"summer">>, <<>>, <<"!!">>,
   <<"Item", generateHashSuffix("id-1")>>, <<"summer", generateHashSuffix("id-2")>>}

\* existingSlugMap.set(slug, id)
MapSet(map, slug, id) ==
  [key \in DOMAIN map \cup {slug} |-> IF key = slug THEN id ELSE map[key]]

\* let counter = 2; while (existingSlugMap.has(`${baseSlug}-${counter}`)) counter++
FirstFreeCounter(map, baseSlug) ==
  CHOOSE counter \in 2..(Cardinality(DOMAIN map) + 2) :
    /\ Append(baseSlug, ToString(counter)) \notin DOMAIN map
    /\ \A smaller \in 2..(counter - 1) : Append(baseSlug, ToString(smaller)) \in DOMAIN map

\* generateSlug(name, id, existingSlugMap): the slug returned and the map
\* as the call leaves it.
generateSlug(name, id, map) ==
  LET baseSlug == normalizeSlug(name)
      candidateSlug == Append(baseSlug, generateHashSuffix(id))
      numericSlug == Append(baseSlug, ToString(FirstFreeCounter(map, baseSlug)))
  IN IF baseSlug = <<>>
     THEN [slug |-> <<"item", generateHashSuffix(id)>>, map |-> map]
     ELSE IF baseSlug \notin DOMAIN map
     THEN [slug |-> baseSlug, map |-> MapSet(map, baseSlug, id)]
     ELSE IF map[baseSlug] = id
     THEN [slug |-> baseSlug, map |-> map]
     ELSE IF candidateSlug \notin DOMAIN map
     THEN [slug |-> candidateSlug, map |-> MapSet(map, candidateSlug, id)]
     ELSE [slug |-> numericSlug, map |-> MapSet(map, numericSlug, id)]

\* One more call of the pass.
SlugCall ==
  /\ pc = "slug_pass"
  /\ Len(registry.calls) < MaxSlugCalls
  /\ \E name \in SlugNames, id \in SlugIds :
       LET out == generateSlug(name, id, registry.existingSlugMap) IN
       registry' = [existingSlugMap |-> out.map,
                    calls |-> Append(registry.calls,
                                     [name |-> name, id |-> id, slug |-> out.slug])]
  /\ UNCHANGED <<pc, entry, mainVars, call, probe, session, applied>>

InitSlug ==
  /\ pc = "slug_pass"
  /\ entry = "generateSlug"
  /\ RestIdle
  /\ call = NoCall
  /\ probe = NoProbe
  /\ session = NoSession
  /\ registry = NoRegistry
  /\ applied = NoApplied

SpecSlug == InitSlug /\ [][SlugCall]_vars

(***************************************************************************)
(* Properties of generateSlug (specification SpecSlug).                    *)
(***************************************************************************)
\* C19: a call with a (name, id) pair that an earlier call of the pass was
\* made with returns the slug that the earlier call returned.
C19_RepeatedCallReturnsSameSlug ==
  \A i, j \in 1..Len(registry.calls) :
    (registry.calls[i].name = registry.calls[j].name
       /\ registry.calls[i].id = registry.calls[j].id)
      => registry.calls[i].slug = registry.calls[j].slug

\* C20: two calls of a pass with different ids return different slugs.
C20_DifferentIdsDifferentSlugs ==
  \A i, j \in 1..Len(registry.calls) :
    registry.calls[i].id # registry.calls[j].id
      => registry.calls[i].slug # registry.calls[j].slug

(***************************************************************************)
(* Pure functions called directly, each with arguments drawn from a small  *)
(* set.  An optional number is <<>> when undefined and <<n>> otherwise.     *)
(***************************************************************************)
OptionalDimension == {<<>>} \cup {<<n>> : n \in 1..MaxDimension}
ImageCandidates ==
  [url : {<<"a">>, <<"b">>, <<"c", "c">>}, width : OptionalDimension,
   height : OptionalDimension]
CandidateLists == UNION {[1..n -> ImageCandidates] : n \in 0..MaxCandidates}

\* The comparator handed to sort: negative when a goes first.
CompareCandidates(a, b) ==
  IF a.width # <<>> /\ b.width # <<>> THEN b.width[1] - a.width[1]
  ELSE IF a.width # <<>> THEN 0 - 1
  ELSE IF b.width # <<>> THEN 1
  ELSE IF a.height # <<>> /\ b.height # <<>> THEN b.height[1] - a.height[1]
  ELSE IF a.height # <<>> THEN 0 - 1
  ELSE IF b.height # <<>> THEN 1
  ELSE Len(b.url) - Len(a.url)

\* Array.prototype.sort is stable: an element goes behind every element
\* that does not compare after it.
InsertStable(sorted, x) ==
  LET later == {k \in 1..Len(sorted) : CompareCandidates(sorted[k], x) > 0}
      at == IF later = {} THEN Len(sorted) + 1
            ELSE CHOOSE k \in later : \A other \in later : k <= other
  IN SubSeq(sorted, 1, at - 1) \o <<x>> \o SubSeq(sorted, at, Len(sorted))

RECURSIVE SortCandidates(_)
SortCandidates(candidates) ==
  IF candidates = <<>> THEN <<>>
  ELSE InsertStable(SortCandidates(SubSeq(candidates, 1, Len(candidates) - 1)),
                    candidates[Len(candidates)])

\* selectHighestResolution(candidates): <<>> for undefined.
selectHighestResolution(candidates) ==
  IF Len(candidates) = 0 THEN <<>>
  ELSE <<SortCandidates(candidates)[1]>>

ApplySelect ==
  /\ pc = "fn_call"
  /\ applied.fn = "selectHighestResolution"
  /\ applied' = [applied EXCEPT !.result = selectHighestResolution(applied.args)]
  /\ pc' = "fn_returned"
  /\ UNCHANGED <<entry, mainVars, call, probe, session, registry>>

\* CLOUDFLARE_MARKERS with their lengths in characters (all ASCII).
CloudflareMarkers ==
  {[text |-> "Attention Required! | Cloudflare", length |-> 32],
   [text |-> "Sorry, you have been blocked", length |-> 28],
   [text |-> "__cf_bm=", length |-> 8],
   [text |-> "cf-ray", length |-> 6]}

\* A body: no marker at all, or one occurrence of a marker, in lower or
\* upper case, at a character offset that ends at, straddles or lies beyond
\* 8192; `wide` is the number of bytes by which multi-byte characters in
\* front of it push its byte offset beyond its character offset.
Bodies ==
  {[marker |-> "none", length |-> 0, casing |-> "lower", charAt |-> 0, wide |-> 0]}
    \cup UNION {{[marker |-> mk.text, length |-> mk.length, casing |-> casing,
                  charAt |-> at, wide |-> wide] :
                   casing \in {"lower", "upper"},
                   at \in {0, MaxBodyBytes - mk.length, MaxBodyBytes - mk.length + 1,
                           MaxBodyBytes},
                   wide \in {0, MaxBodyBytes}} : mk \in CloudflareMarkers}

\* Responses as isCloudflareBlocked sees them: status, content-type header
\* ("" when missing), the body, and how the body can be read.
ResponseLikes ==
  [status : {200, 403, 503},
   contentType : {"text/html", "TEXT/HTML; charset=utf-8", "image/jpeg", ""},
   reader : {"text", "arrayBuffer", "none", "throws"},
   body : Bodies]

\* contentType.toLowerCase().includes('text/html')
IsHtmlContentType(contentType) ==
  contentType \in {"text/html", "TEXT/HTML; charset=utf-8"}

\* toLowerCase() of a piece of text, by its letter case.
ToLowerCase(casing) == "lower"

\* Whether the lowered bodyText includes the lowered marker: text() is cut
\* to 8192 UTF-16 units, arrayBuffer() to 8192 bytes.
MarkerInBodyText(response) ==
  /\ response.body.marker # "none"
  /\ ToLowerCase(response.body.casing) = ToLowerCase("listed")
  /\ IF response.reader = "text"
     THEN response.body.charAt + response.body.length <= MaxBodyBytes
     ELSE response.body.charAt + response.body.wide + response.body.length
            <= MaxBodyBytes

\* isCloudflareBlocked with the way it reads the body: the answer, and
\* whether a body-reading method was called.
ScanResponse(response) ==
  LET html == IsHtmlContentType(response.contentType)
      readable == response.reader \in {"text", "arrayBuffer"}
      seen == readable /\ MarkerInBodyText(response)
  IN [blocked |-> isCloudflareBlocked(Resp(response.status, html, seen, FALSE)),
      bodyRead |-> response.status # 403 /\ html /\ response.reader # "none"]

ApplyScan ==
  /\ pc = "fn_call"
  /\ applied.fn = "isCloudflareBlocked"
  /\ applied' = [applied EXCEPT !.result = ScanResponse(applied.args)]
  /\ pc' = "fn_returned"
  /\ UNCHANGED <<entry, mainVars, call, probe, session, registry>>

\* Faulty variant: the set of seen ids is not consulted.
AlreadyQueuedIgnored(seen, mediaId) == FALSE

\* seenMediaIds.has(mediaId)
AlreadyQueued(seen, mediaId) == mediaId \in seen

\* addToQueue(url, mediaId, type, category) on the queue, the seen ids and
\* the statistics built so far.
addToQueue(built, url, mediaId, type, category) ==
  IF AlreadyQueued(built.seen, mediaId) THEN built
  ELSE [queue |-> Append(built.queue,
                         [url |-> url, localPath |-> MediaPathOf(mediaId),
                          mediaId |-> mediaId, type |-> type]),
        seen |-> built.seen \cup {mediaId},
        stats |-> [built.stats EXCEPT ![category] = @ + 1]]

\* One of the four loops of buildDownloadQueue over items [id, url].
RECURSIVE AddEach(_, _, _, _)
AddEach(built, items, type, category) ==
  IF items = <<>> THEN built
  ELSE AddEach(addToQueue(built, items[1].url, items[1].id, type, category),
               Tail(items), type, category)

\* buildDownloadQueue(photos, blogPosts); `assets` is what
\* extractBlogAssetUrls returns for the blog posts.
buildDownloadQueue(photos, assets) ==
  LET start == [queue |-> <<>>, seen |-> {},
                stats |-> [new |-> 0, missing |-> 0, invalid |-> 0]]
      afterNew == AddEach(start, photos.new, "photo", "new")
      afterMissing == AddEach(afterNew, photos.missing, "photo", "missing")
      afterInvalid == AddEach(afterMissing, photos.invalid, "photo", "invalid")
      built == AddEach(afterInvalid, assets, "blog-asset", "new")
  IN [queue |-> built.queue, stats |-> built.stats]

\* Arguments of buildDownloadQueue: up to MaxQueueEntries items, each put in
\* one of the four lists, ids and URLs possibly repeated.
QueueArguments ==
  LET origins == <<"new", "missing", "invalid", "asset">>
      items == [id : {IdA, IdB}, url : {"u1", "u2"}, origin : 1..4]
      lists == UNION {[1..n -> items] : n \in 0..MaxQueueEntries}
      ordered == {l \in lists : \A i \in 1..(Len(l) - 1) : l[i].origin <= l[i + 1].origin}
      From(l, origin) ==
        LET chosen == SelectSeq(l, LAMBDA item : origins[item.origin] = origin)
        IN [i \in 1..Len(chosen) |-> [id |-> chosen[i].id, url |-> chosen[i].url]]
  IN {[photos |-> [new |-> From(l, "new"), missing |-> From(l, "missing"),
                   invalid |-> From(l, "invalid")],
       assets |-> From(l, "asset")] : l \in ordered}

ApplyQueue ==
  /\ pc = "fn_call"
  /\ applied.fn = "buildDownloadQueue"
  /\ applied' = [applied EXCEPT
       !.result = buildDownloadQueue(applied.args.photos, applied.args.assets)]
  /\ pc' = "fn_returned"
  /\ UNCHANGED <<entry, mainVars, call, probe, session, registry>>

\* The call about to be made: the function and its arguments.
Calling(fn, args) == applied = [fn |-> fn, args |-> args, result |-> <<>>]

InitPure ==
  /\ pc = "fn_call"
  /\ entry = "function"
  /\ RestIdle
  /\ call = NoCall
  /\ probe = NoProbe
  /\ session = NoSession
  /\ registry = NoRegistry
  /\ \/ \E list \in CandidateLists : Calling("selectHighestResolution", list)
     \/ \E response \in ResponseLikes : Calling("isCloudflareBlocked", response)
     \/ \E arguments \in QueueArguments : Calling("buildDownloadQueue", arguments)

NextPure ==
  \/ ApplySelect
  \/ ApplyScan
  \/ ApplyQueue

SpecPure == InitPure /\ [][NextPure]_vars

(***************************************************************************)
(* Properties of the pure functions (specification SpecPure).              *)
(***************************************************************************)
Returned(fn) == pc = "fn_returned" /\ applied.fn = fn

\* C21: for a non-empty list with at least one numeric width, the candidate
\* returned has the maximum width; among the candidates of that width it
\* has the maximum height; among those of that width and height it has the
\* longest URL.
C21_HighestResolutionSelected ==
  (/\ Returned("selectHighestResolution")
   /\ \E i \in 1..Len(applied.args) : applied.args[i].width # <<>>)
  => LET picked == applied.result[1]
         list == applied.args
         widest == {i \in 1..Len(list) :
                      /\ list[i].width # <<>>
                      /\ \A j \in 1..Len(list) :
                           list[j].width # <<>> => list[j].width[1] <= list[i].width[1]}
         tallest == {i \in widest :
                       \A j \in widest :
                         \/ list[j].height = <<>>
                         \/ (list[i].height # <<>> /\ list[j].height[1] <= list[i].height[1])}
         longest == {i \in tallest : \A j \in tallest : Len(list[j].url) <= Len(list[i].url)}
     IN \E i \in longest : list[i] = picked

\* C22: a 403 response is blocked whatever its content type and body; a 200
\* response with an HTML content type is blocked exactly when a marker, in
\* any letter case, lies within the first 8192 bytes of the body; a 200
\* response with another content type is not blocked and its body is not
\* read.
C22_BlockDetection ==
  Returned("isCloudflareBlocked") =>
    LET response == applied.args
        within == /\ response.body.marker # "none"
                  /\ response.body.charAt + response.body.wide + response.body.length
                       <= MaxBodyBytes
    IN /\ response.status = 403 => applied.result.blocked
       /\ (response.status = 200 /\ IsHtmlContentType(response.contentType))
            => (applied.result.blocked <=> within)
       /\ (response.status = 200 /\ ~IsHtmlContentType(response.contentType))
            => (~applied.result.blocked /\ ~applied.result.bodyRead)

(***************************************************************************)
(* Further properties of discoverProfile (SpecDiscover).                   *)
(***************************************************************************)
\* C23: the no-new-content counter is the number of the most recent
\* consecutive cycles that added no id; a loop that ended with neither the
\* cycle cap nor the item cap reached ended with the counter at the
\* threshold, and no cycle starts once the counter is at the threshold.
C23_CounterTracksEmptyCycles ==
  /\ [](probe.cyclesWithoutNewContent = probe.emptyRun)
  /\ []((/\ pc = "dp_extract"
         /\ probe.currentCycle < probe.maxScrollCycles
         /\ ~(probe.limited /\ probe.totalIds >= probe.maxItems))
        => probe.cyclesWithoutNewContent = probe.noNewContentThreshold)
  /\ [][(pc = "dp_scroll"
           /\ probe.cyclesWithoutNewContent >= probe.noNewContentThreshold)
          => probe'.currentCycle = probe.currentCycle]_vars

\* Two empty cycles, a cycle that found ids, then three empty cycles ended
\* the loop at the default threshold.
C23_Witness ==
  /\ pc = "dp_extract"
  /\ probe.noNewContentThreshold = DefaultNoNewContentThreshold
  /\ probe.cyclesWithoutNewContent = DefaultNoNewContentThreshold
  /\ probe.currentCycle = 6
  /\ probe.totalIds = 1
  /\ probe.maxScrollCycles = DefaultMaxScrollCycles
  /\ ~probe.limited

\* C24: once the private/suspended markers were detected, discoverProfile
\* has returned the private result, with no scroll cycle run and the
\* extraction pass not started.
C24_PrivateReturnsAtOnce ==
  probe.navigated = "private" =>
    /\ pc = "dp_returned"
    /\ probe.errorMessage = "Profile is private or suspended"
    /\ probe.currentCycle = 0
    /\ ~probe.extracted

C24_Witness ==
  /\ probe.navigated = "private"
  /\ pc = "dp_returned"
  /\ probe.ownsBrowser

\* C25: after an exception discoverProfile returns, and does not throw, a
\* result carrying the message of that exception, also when the artifact
\* capture failed and when closing the browser failed.
C25_ExceptionBecomesResult ==
  (pc \in {"dp_returned", "dp_rejected"} /\ probe.capture # "none")
    => (pc = "dp_returned" /\ probe.errorMessage # "")

\* The items handed to buildDownloadQueue in the order it goes through
\* them, each with the type its queue entry would get.
QueueCandidates ==
  LET Typed(items, type) ==
        [i \in 1..Len(items) |-> [mediaId |-> items[i].id, url |-> items[i].url,
                                  type |-> type]]
      photos == applied.args.photos
  IN Typed(photos.new \o photos.missing \o photos.invalid, "photo")
       \o Typed(applied.args.assets, "blog-asset")

\* C26: the queue holds no two entries with the same id, and the entry of
\* every id handed in is the one of its first occurrence in the order new,
\* missing, invalid, blog assets.
C26_QueueDeduplicatedFirstWins ==
  Returned("buildDownloadQueue") =>
    LET queue == applied.result.queue
        given == QueueCandidates
    IN /\ \A i, j \in 1..Len(queue) : queue[i].mediaId = queue[j].mediaId => i = j
       /\ \A k \in 1..Len(given) :
            (\A earlier \in 1..(k - 1) : given[earlier].mediaId # given[k].mediaId)
              => \E i \in 1..Len(queue) :
                   /\ queue[i].mediaId = given[k].mediaId
                   /\ queue[i].url = given[k].url
                   /\ queue[i].type = given[k].type

\* An id handed in as a missing photo and again as a blog asset with
\* another URL.
C26_Witness ==
  /\ Returned("buildDownloadQueue")
  /\ Len(applied.args.photos.missing) = 1
  /\ Len(applied.args.assets) = 1
  /\ applied.args.assets[1].id = applied.args.photos.missing[1].id
  /\ applied.args.assets[1].url # applied.args.photos.missing[1].url
  /\ Len(applied.result.queue) = 1
  /\ applied.result.queue[1].type = "photo"

(***************************************************************************)
(* Further properties of the download layer (specification SpecDownload).  *)
(***************************************************************************)
\* C27: downloadAssets works on one item at a time in queue order; when the
\* item at position k is in progress or finished and no later one has been
\* started, exactly k - 1 rate-limit delays have taken place: none before
\* the first item and n - 1 for the whole queue of n items.
C27_OneDelayBetweenItems ==
  entry = "downloadAssets" =>
    /\ pc \in {"dl_fetch", "dl_write"} =>
         (Len(results) < Len(tasks) /\ dlog.delays = Len(results))
    /\ (pc \in {"dl_item", "dl_done"} /\ Len(results) >= 1) =>
         dlog.delays = Len(results) - 1
    /\ pc = "dl_done" => Len(results) = Len(tasks)
    /\ \A i \in 1..Len(results) : results[i].task = tasks[i]

\* A queue of two items worked off with one delay, the second item fetched.
C27_Witness ==
  /\ entry = "downloadAssets"
  /\ pc = "dl_done"
  /\ Len(tasks) = 2
  /\ dlog.delays = 1
  /\ results[2].downloaded

(***************************************************************************)
(* Further properties of orchestrateBackup (specification Spec).           *)
(***************************************************************************)
\* C28: two different media ids never map to the same local media path:
\* the items queued for download have pairwise different target files
\* whenever their ids differ.
C28_DistinctIdsDistinctPaths ==
  \A i, j \in 1..Len(tasks) :
    tasks[i].mediaId # tasks[j].mediaId =>
      MediaPathOf(tasks[i].mediaId) # MediaPathOf(tasks[j].mediaId)

\* The ids of a list of photos.
PhotoIdsOf(photos) == {photos[i].id : i \in 1..Len(photos)}

\* C29: an item whose download failed in a run is recorded in the manifest
\* that the run saves; when the next run has classified the photos and no
\* file was tampered with in between, the item is among the missing items
\* and among the queued tasks unless its local file is complete.
C29_FailedItemRecordedAndRequeued ==
  /\ (entry = "orchestrateBackup" /\ pc = "site") =>
       \A id \in hist.failedIds : <<"photo", id>> \in ContentIds(manifestFile)
  /\ (entry = "orchestrateBackup" /\ pc \in {"dl_item", "dl_done"} /\ results = <<>>
        /\ hist.tamper = {}) =>
       \A id \in hist.failedIds \cap PhotoIdsOf(manifest.photos) :
         media[MediaPathOf(id)] # "full" =>
           /\ id \in PhotoIdsOf(incremental.missingItems)
           /\ id \notin PhotoIdsOf(incremental.newItems)
           /\ \E i \in 1..Len(tasks) : tasks[i].mediaId = id

\* manifest.content of a manifest file: photos, galleries and blog posts
\* (nothing for a file that is absent or cannot be parsed).
ContentOf(file) ==
  IF file.kind = "complete"
  THEN <<file.m.photos, file.m.galleries, file.m.blog_posts>>
  ELSE <<<<>>, <<>>, <<>>>>

\* C30: whenever the persisted manifest records the run that was started
\* last with status "failed", its content (photos, galleries, blog posts) is
\* the content that was persisted before that run started.
C30_FailedRunLeavesContent ==
  (/\ entry = "orchestrateBackup"
   /\ manifestFile.kind = "complete"
   /\ \E i \in 1..Len(manifestFile.m.backup_runs) :
        /\ manifestFile.m.backup_runs[i].run_id = generateRunId(clock)
        /\ manifestFile.m.backup_runs[i].status = "failed")
  => ContentOf(manifestFile) = ContentOf(hist.before)

====
